---- MODULE Spec2Model ----
(***************************************************************************)
(* kanbex: a kanban backend.  tRPC routers (auth, user, board, stage,      *)
(* task) over a Prisma store of four tables with soft delete, and a        *)
(* per-request context built from a bearer token.                          *)
(*                                                                         *)
(* One request is one atomic step: createContext, the procedure's          *)
(* middleware, the handler and every Prisma call the handler makes.        *)
(* Inputs range over values the zod input schemas accept.                  *)
(***************************************************************************)
EXTENDS Integers, Sequences, FiniteSets, TLC

VARIABLES
  users,    \* table User  : sequence of rows, in insertion order
  boards,   \* table Board
  stages,   \* table Stage
  tasks,    \* table Task
  jar,      \* tokens that clients hold (returned by auth.login)
  now,      \* the clock, in ticks of 12 hours
  context,  \* which createContext the server was started with
  resp,     \* the last request served and its response
  inflight  \* the requests being served at once, and where each one is

vars == <<users, boards, stages, tasks, jar, now, context, resp, inflight>>

----------------------------------------------------------------------------
(* Bounds of the model *)

MaxRows == 3       \* rows of Board, Stage and Task together
MaxTime == 2       \* ticks of the clock
MaxTokens == 1     \* tokens the clients keep
MaxInflight == 2   \* requests served at once

(* Program constants *)

TokenTTL == 2          \* expiresIn: "1d", the clock ticking every 12 hours
DefaultLimit == 10     \* limit: z.number().default(10)
DefaultOffset == 0     \* offset: z.number().default(0)

----------------------------------------------------------------------------
(* JavaScript values: undefined/null is None, a present value v is Some(v) *)

None == <<>>
Some(v) == <<v>>
IsSome(o) == Len(o) = 1
Val(o) == o[1]

(* a || b on strings: the empty string and null are falsy *)
OrStr(a, b) == IF a = None \/ a = Some("") THEN b ELSE a
(* a || b on numbers: 0 and null are falsy *)
OrNum(a, b) == IF a = None \/ a = Some(0) THEN b ELSE a
(* a || b on objects, uuids and dates: only null/undefined is falsy *)
OrObj(a, b) == IF a = None THEN b ELSE a

----------------------------------------------------------------------------
(* Input domains *)

Usernames == {"alice", "bob"}
Names == {"n1", "n2"}
Emails == {"e1", "e2"}
Passwords == {"password1", "password2"}
Salts == {1, 2}
Titles == {"t1", "t2"}

UserID(n) == <<"user", n>>
BoardID(n) == <<"board", n>>
StageID(n) == <<"stage", n>>
TaskID(n) == <<"task", n>>

----------------------------------------------------------------------------
(* Results of a handler body *)

Ok(p) == [code |-> "OK", message |-> "", payload |-> p]
Throw(c, m) == [code |-> c, message |-> m, payload |-> None]

(* try { ... } catch (error) { throw new TRPCError({ code:                 *)
(* "INTERNAL_SERVER_ERROR", message }) }: every throw inside the try,      *)
(* a TRPCError included, leaves as INTERNAL_SERVER_ERROR                   *)
CatchAll(r, m) ==
  IF r.code = "OK" THEN r ELSE Throw("INTERNAL_SERVER_ERROR", m)

(* what a handler hands back: its result, the tables after it, and the     *)
(* Prisma calls it made *)
Out(r, us, bs, ss, ts, calls) ==
  [r |-> r, users |-> us, boards |-> bs, stages |-> ss, tasks |-> ts, db |-> calls]

NoWrite(r, calls) == Out(r, users, boards, stages, tasks, calls)

----------------------------------------------------------------------------
(* Prisma queries on sequences of rows *)

(* findFirst: the first of the rows the where clause selects, or null *)
FindFirst(selected) ==
  IF selected = <<>> THEN None ELSE Some(selected[1])

(* findMany with skip and take, of the rows the where clause selects *)
FindMany(selected, take, skip) ==
  LET lo == skip + 1
      hi == IF skip + take < Len(selected) THEN skip + take ELSE Len(selected)
  IN IF lo > hi THEN <<>> ELSE SubSeq(selected, lo, hi)

(* update({ where: { externalID }, data }): the row with that id replaced *)
(* by its patched version *)
UpdateRow(rows, id, patched) ==
  [i \in 1..Len(rows) |-> IF rows[i].externalID = id THEN patched[i] ELSE rows[i]]

(* data: { deleted: !deleted } *)
SoftDelete_toggle(r) == [r EXCEPT !.deleted = ~@]

(* data: { deleted: true } *)
SoftDelete(r) == [r EXCEPT !.deleted = TRUE]

Exists(rows, id) == \E i \in 1..Len(rows) : rows[i].externalID = id

RowOf(rows, id) == rows[CHOOSE i \in 1..Len(rows) : rows[i].externalID = id]

----------------------------------------------------------------------------
(* Credentials: bcrypt and jsonwebtoken *)

JWT_SECRET == "env.JWT_SECRET"

(* bcrypt.hash(password, 10): a salted one-way digest *)
BcryptHash(pw, salt) == [salt |-> salt, digest |-> <<"bcrypt", salt, pw>>]

(* bcrypt.compare(password, hash) *)
BcryptCompare(pw, h) == h.digest = <<"bcrypt", h.salt, pw>>

(* jwt.sign({ externalID }, secret, { expiresIn: "1d" }) *)
JwtSign(externalID, secret, t) ==
  [kind |-> "jwt",
   payload |-> [externalID |-> externalID, iat |-> t, exp |-> t + TokenTTL],
   sig |-> secret]

(* jwt.verify(token, secret): the decoded payload object, or a throw on a  *)
(* malformed token, a wrong signature, or an expired token *)
JwtVerify(token, secret, t) ==
  IF token.kind # "jwt" THEN [threw |-> TRUE, error |-> "JsonWebTokenError", payload |-> token.payload]
  ELSE IF token.sig # secret THEN [threw |-> TRUE, error |-> "JsonWebTokenError", payload |-> token.payload]
  ELSE IF t >= token.payload.exp THEN [threw |-> TRUE, error |-> "TokenExpiredError", payload |-> token.payload]
  ELSE [threw |-> FALSE, error |-> "", payload |-> token.payload]

(* tokens a client can make up without the server: one signed with another *)
(* secret, and one that is no JWT at all *)
ForgedToken ==
  [kind |-> "jwt",
   payload |-> [externalID |-> UserID(1), iat |-> 0, exp |-> MaxTime + 2],
   sig |-> "attacker"]
GarbageToken ==
  [kind |-> "garbage",
   payload |-> [externalID |-> UserID(0), iat |-> 0, exp |-> 0],
   sig |-> ""]
CraftedTokens == {ForgedToken, GarbageToken}

(* the Authorization header after split(' '): absent, "Bearer" alone, or   *)
(* "Bearer <token>" *)
Headers ==
  {None, <<"Bearer">>} \cup {<<"Bearer", t>> : t \in jar \cup CraftedTokens}

(* the headers of well-behaved clients: none, or a token from auth.login *)
ClientHeaders == {None} \cup {<<"Bearer", t>> : t \in jar}

(* req.headers.authorization?.split(' ')[1] *)
BearerToken(h) == IF Len(h) >= 2 THEN Some(h[2]) ELSE None

----------------------------------------------------------------------------
(* Context Builder *)

(* prisma.user.findUnique({ where: { externalID: w } }): Prisma accepts    *)
(* only a string for the externalID filter and rejects anything else with  *)
(* a validation error; there is no filter on the deleted flag *)
UserFindUnique(w) ==
  IF w.type # "string"
    THEN [threw |-> TRUE, row |-> None]
    ELSE [threw |-> FALSE, row |-> FindFirst(SelectSeq(users, LAMBDA u : u.externalID = w.v))]

AnonymousContext == [threw |-> FALSE, error |-> "", user |-> None, db |-> <<>>]
ContextThrew(e, calls) == [threw |-> TRUE, error |-> e, user |-> None, db |-> calls]

(* src/context.ts: the verified payload object is cast `as string` and     *)
(* used whole as the externalID filter *)
createContext(h) ==
  LET token == BearerToken(h) IN
  IF token = None THEN AnonymousContext
  ELSE
    LET v == JwtVerify(Val(token), JWT_SECRET, now) IN
    IF v.threw THEN ContextThrew(v.error, <<>>)
    ELSE
      LET userExternalID == [type |-> "object", v |-> v.payload]
          found == UserFindUnique(userExternalID)
      IN IF found.threw
           THEN ContextThrew("PrismaClientValidationError", <<"user.findUnique">>)
           ELSE [threw |-> FALSE, error |-> "", user |-> found.row,
                 db |-> <<"user.findUnique">>]

(* the other createContext of the repository: the filter is the payload's  *)
(* externalID field *)
createContext_payload(h) ==
  LET token == BearerToken(h) IN
  IF token = None THEN AnonymousContext
  ELSE
    LET jsonObj == JwtVerify(Val(token), JWT_SECRET, now) IN
    IF jsonObj.threw THEN ContextThrew(jsonObj.error, <<>>)
    ELSE
      LET found == UserFindUnique([type |-> "string", v |-> jsonObj.payload.externalID])
      IN IF found.threw
           THEN ContextThrew("PrismaClientValidationError", <<"user.findUnique">>)
           ELSE [threw |-> FALSE, error |-> "", user |-> found.row,
                 db |-> <<"user.findUnique">>]

ContextBuilders == {"context.ts", "payload"}

(* createExpressMiddleware({ router: appRouter, createContext }) *)
BuildContext(h) ==
  IF context = "context.ts" THEN createContext(h) ELSE createContext_payload(h)

----------------------------------------------------------------------------
(* Procedures *)

(* isAuthorized: if (!ctx.user) throw UNAUTHORIZED *)
isAuthorized(ctx) == ctx.user # None

Ops ==
  {"auth.register", "auth.login",
   "user.me", "user.updateUser", "user.deleteUser",
   "board.list", "board.get", "board.create", "board.update", "board.delete",
   "stage.list", "stage.get", "stage.create", "stage.update", "stage.delete",
   "task.list", "task.get", "task.create", "task.update", "task.delete"}

(* the router a procedure is defined in *)
RouterOf(op) ==
  IF op \in {"auth.register", "auth.login"} THEN "auth"
  ELSE IF op \in {"user.me", "user.updateUser", "user.deleteUser"} THEN "user"
  ELSE IF op \in {"board.list", "board.get", "board.create", "board.update",
                  "board.delete"} THEN "board"
  ELSE IF op \in {"stage.list", "stage.get", "stage.create", "stage.update",
                  "stage.delete"} THEN "stage"
  ELSE "task"

(* appRouter = router({ auth, user, board }).  The procedures of the stage *)
(* and task routers are served below as the transports serve a mounted     *)
(* router's *)
appRouter == {"auth", "user", "board"}

(* board.list built with publicProcedure *)
ProcedureOf_listPublic(op) ==
  IF op \in {"auth.register", "auth.login", "board.list"} THEN "publicProcedure"
  ELSE "protectedProcedure"

(* the procedure builder each router entry is made with *)
ProcedureOf(op) ==
  IF op \in {"auth.register", "auth.login"} THEN "publicProcedure"
  ELSE "protectedProcedure"

(* ctx.user.externalID with ctx.user null is a TypeError *)
TypeError == Throw("TypeError", "Cannot read properties of null")

(* tRPC turns an error that is no TRPCError into INTERNAL_SERVER_ERROR *)
TrpcError(r) ==
  IF r.code \in {"OK", "BAD_REQUEST", "UNAUTHORIZED", "NOT_FOUND", "INTERNAL_SERVER_ERROR"}
    THEN r ELSE Throw("INTERNAL_SERVER_ERROR", r.message)

NoRequest ==
  [op |-> "none", header |-> None, ctx |-> "", caller |-> None, input |-> None,
   code |-> "", message |-> "", payload |-> None, db |-> <<>>, ctxdb |-> <<>>,
   ran |-> FALSE]

(* the handler runs when the context was built and the middleware let the *)
(* request through *)
Runs(op, ctx) ==
  ~ctx.threw /\ (ProcedureOf(op) = "protectedProcedure" => isAuthorized(ctx))

(* one request: createContext, the middleware, the handler.  The input is  *)
(* parsed after the middleware, so a request stopped before has none *)
Serve(op, h, ctx, input, out) ==
  \E final \in {IF ctx.threw THEN NoWrite(Throw("INTERNAL_SERVER_ERROR", ctx.error), <<>>)
                ELSE IF ~Runs(op, ctx) THEN NoWrite(Throw("UNAUTHORIZED", "UNAUTHORIZED"), <<>>)
                ELSE out} :
    \E r \in {TrpcError(final.r)} :
     /\ Len(final.boards) + Len(final.stages) + Len(final.tasks) <= MaxRows
     /\ users' = final.users
     /\ boards' = final.boards
     /\ stages' = final.stages
     /\ tasks' = final.tasks
     /\ jar' = IF op = "auth.login" /\ r.code = "OK" /\ Cardinality(jar) < MaxTokens
                 THEN jar \cup {r.payload.token} ELSE jar
     /\ resp' = [op |-> op, header |-> h,
                 ctx |-> IF ctx.threw THEN "error"
                         ELSE IF ctx.user = None THEN "anonymous" ELSE "user",
                 caller |-> IF ctx.user = None THEN None ELSE Some(Val(ctx.user).externalID),
                 input |-> IF Runs(op, ctx) THEN Some(input) ELSE None,
                 code |-> r.code, message |-> r.message, payload |-> r.payload,
                 db |-> final.db, ctxdb |-> ctx.db,
                 ran |-> Runs(op, ctx)]
     /\ now' = now
     /\ context' = context
     /\ inflight' = inflight

(* the adapter writes the response to the client; the next request is     *)
(* served after it *)
SendResponse ==
  /\ resp # NoRequest
  /\ resp' = NoRequest
  /\ UNCHANGED <<users, boards, stages, tasks, jar, now, context, inflight>>

----------------------------------------------------------------------------
(* authRouter *)

UserByUsername(name) == FindFirst(SelectSeq(users, LAMBDA u : u.username = name))

(* register, inside its handler *)
registerBody(input, salt) ==
  LET existingUser == UserByUsername(input.username) IN
  IF existingUser # None
    THEN NoWrite(Throw("BAD_REQUEST", "User already exists"), <<"user.findUnique">>)
    ELSE
      LET hashedPassword == BcryptHash(input.password, salt)
          user == [externalID |-> UserID(Len(users) + 1),
                   username |-> input.username, name |-> input.name,
                   email |-> input.email, password |-> hashedPassword,
                   deleted |-> FALSE]
      IN Out(Ok([user |-> [externalID |-> user.externalID, username |-> user.username,
                           email |-> user.email]]),
             Append(users, user), boards, stages, tasks,
             <<"user.findUnique", "user.create">>)

(* login, inside its handler *)
loginBody(input) ==
  LET user == UserByUsername(input.username) IN
  IF user = None
    THEN NoWrite(Throw("BAD_REQUEST", "Invalid credentials"), <<"user.findUnique">>)
  ELSE IF ~BcryptCompare(input.password, Val(user).password)
    THEN NoWrite(Throw("BAD_REQUEST", "Invalid credentials"), <<"user.findUnique">>)
  ELSE NoWrite(Ok([token |-> JwtSign(Val(user).externalID, JWT_SECRET, now)]),
               <<"user.findUnique">>)

(* a handler whose whole body is in try/catch *)
Caught(out, m) == [out EXCEPT !.r = CatchAll(out.r, m)]

(* authRouter.register, the definition with the try/catch *)
auth_register(h, input, salt) ==
  /\ resp = NoRequest
  /\ \E ctx \in {BuildContext(h)} :
       Serve("auth.register", h, ctx, input,
        Caught(registerBody(input, salt), "Something went wrong"))

(* authRouter.register, the definition without *)
auth_register2(h, input, salt) ==
  /\ resp = NoRequest
  /\ \E ctx \in {BuildContext(h)} :
       Serve("auth.register", h, ctx, input, registerBody(input, salt))

auth_login(h, input) ==
  /\ resp = NoRequest
  /\ \E ctx \in {BuildContext(h)} :
       Serve("auth.login", h, ctx, input, Caught(loginBody(input), "Something went wrong"))

auth_login2(h, input) ==
  /\ resp = NoRequest
  /\ \E ctx \in {BuildContext(h)} :
       Serve("auth.login", h, ctx, input, loginBody(input))


----------------------------------------------------------------------------
(* userRouter *)

UserView(u) ==
  [externalID |-> u.externalID, username |-> u.username, name |-> u.name,
   email |-> u.email]

user_me_handler(ctx) ==
  IF ctx.user = None THEN NoWrite(TypeError, <<>>)
  ELSE NoWrite(Ok([user |-> UserView(Val(ctx.user))]), <<>>)

user_me(h) ==
  /\ resp = NoRequest
  /\ \E ctx \in {BuildContext(h)} :
       Serve("user.me", h, ctx, [externalID |-> None], user_me_handler(ctx))

(* data: { name, email }: the password left out of the update *)
PatchUser_keepPassword(u, input, salt) ==
  [u EXCEPT !.name = IF input.name = None THEN @ ELSE Val(input.name),
            !.email = IF input.email = None THEN @ ELSE Val(input.email)]

(* data: { name, email, password }: an undefined field is left alone *)
PatchUser(u, input, salt) ==
  [u EXCEPT !.name = IF input.name = None THEN @ ELSE Val(input.name),
            !.email = IF input.email = None THEN @ ELSE Val(input.email),
            !.password = IF input.password = None \/ input.password = Some("")
                           THEN @ ELSE BcryptHash(Val(input.password), salt)]

(* an update of the row input.externalID names *)
user_updateUser_handler_byInput(ctx, input, salt) ==
  IF ctx.user = None THEN NoWrite(CatchAll(TypeError, "Something went wrong"), <<>>)
  ELSE
    LET existingUser == FindFirst(SelectSeq(users, LAMBDA u : u.externalID = input.externalID /\ ~u.deleted))
    IN IF existingUser = None
         THEN NoWrite(CatchAll(Throw("NOT_FOUND", "User not found"), "Something went wrong"),
                      <<"user.findFirst">>)
         ELSE
           LET after == UpdateRow(users, input.externalID, [i \in 1..Len(users) |-> PatchUser(users[i], input, salt)])
           IN Out(Ok([user |-> UserView(RowOf(after, input.externalID))]),
                  after, boards, stages, tasks, <<"user.findFirst", "user.update">>)

user_updateUser_handler(ctx, input, salt) ==
  IF ctx.user = None THEN NoWrite(CatchAll(TypeError, "Something went wrong"), <<>>)
  ELSE
    LET me == Val(ctx.user).externalID
        existingUser == FindFirst(SelectSeq(users, LAMBDA u : u.externalID = me /\ ~u.deleted))
    IN IF existingUser = None
         THEN NoWrite(CatchAll(Throw("NOT_FOUND", "User not found"), "Something went wrong"),
                      <<"user.findFirst">>)
         ELSE
           LET after == UpdateRow(users, me, [i \in 1..Len(users) |-> PatchUser(users[i], input, salt)])
           IN Out(Ok([user |-> UserView(RowOf(after, me))]),
                  after, boards, stages, tasks, <<"user.findFirst", "user.update">>)

user_updateUser(h, input, salt) ==
  /\ resp = NoRequest
  /\ \E ctx \in {BuildContext(h)} :
       Serve("user.updateUser", h, ctx, input, user_updateUser_handler(ctx, input, salt))

user_deleteUser_handler(ctx) ==
  IF ctx.user = None THEN NoWrite(CatchAll(TypeError, "Something went wrong"), <<>>)
  ELSE
    LET me == Val(ctx.user).externalID
    IN Out(Ok([empty |-> TRUE]),
           UpdateRow(users, me, [i \in 1..Len(users) |-> SoftDelete(users[i])]),
           boards, stages, tasks, <<"user.update">>)

user_deleteUser(h, input) ==
  /\ resp = NoRequest
  /\ \E ctx \in {BuildContext(h)} :
       Serve("user.deleteUser", h, ctx, input, user_deleteUser_handler(ctx))


(* the clock *)
Tick ==
  /\ resp = NoRequest
  /\ now < MaxTime
  /\ now' = now + 1
  /\ UNCHANGED <<users, boards, stages, tasks, jar, context, resp, inflight>>

----------------------------------------------------------------------------
(* boardRouter *)

UserRef(id) ==
  LET u == RowOf(users, id) IN [externalID |-> id, username |-> u.username]
UserNameRef(id) ==
  LET u == RowOf(users, id) IN [externalID |-> id, name |-> u.name]

(* the board as the output schema keeps it, include: { createdBy: true } *)
BoardView(b) ==
  [externalID |-> b.externalID, title |-> b.title, description |-> b.description,
   createdBy |-> UserRef(b.createdBy)]

StageBrief(s) ==
  [externalID |-> s.externalID, title |-> s.title, description |-> s.description]

(* include: { Stage: true }: every stage row that references the board *)
StagesOfBoard(id) == SelectSeq(stages, LAMBDA s : s.board = id)

BoardViews(rows) == [i \in 1..Len(rows) |-> BoardView(rows[i])]
StageBriefs(rows) == [i \in 1..Len(rows) |-> StageBrief(rows[i])]

(* the ownership filter left out of the where clause *)
OwnLive_anyOwner(rows, id, me) ==
  FindFirst(SelectSeq(rows, LAMBDA r : r.externalID = id /\ ~r.deleted))

(* where: { externalID, deleted: false, createdBy: { externalID: me } } *)
OwnLive(rows, id, me) ==
  FindFirst(SelectSeq(rows, LAMBDA r : r.externalID = id /\ ~r.deleted /\ r.createdBy = me))

(* where: { title, deleted: false, createdBy: { externalID: me } } *)
OwnLiveTitled(rows, title, me) ==
  FindFirst(SelectSeq(rows, LAMBDA r : r.title = title /\ ~r.deleted /\ r.createdBy = me))

NotFoundError == Throw("NotFoundError", "No record found")

board_list_handler(ctx, input) ==
  IF ctx.user = None THEN NoWrite(TypeError, <<>>)
  ELSE
    LET me == Val(ctx.user).externalID
        found == FindMany(SelectSeq(boards, LAMBDA b : ~b.deleted /\ b.createdBy = me),
                          input.limit, input.offset)
    IN NoWrite(Ok([boards |-> BoardViews(found)]), <<"board.findMany">>)

board_get_handler(ctx, input) ==
  IF ctx.user = None THEN NoWrite(TypeError, <<>>)
  ELSE
    LET me == Val(ctx.user).externalID
        board == OwnLive(boards, input.externalID, me)
    IN IF board = None
         THEN NoWrite(Throw("NOT_FOUND", "Board not found"), <<"board.findFirst">>)
         ELSE NoWrite(Ok([board |-> BoardView(Val(board))
                                    @@ [stage |-> StageBriefs(StagesOfBoard(input.externalID))]]),
                      <<"board.findFirst">>)

board_create_handler(ctx, input) ==
  IF ctx.user = None THEN NoWrite(TypeError, <<>>)
  ELSE
    LET me == Val(ctx.user).externalID
        same == OwnLiveTitled(boards, input.title, me)
    IN IF same = None
         THEN NoWrite(NotFoundError, <<"board.findFirstOrThrow">>)
         ELSE
           LET board == [externalID |-> BoardID(Len(boards) + 1),
                         title |-> input.title,
                         description |-> Val(OrStr(input.description, Some(""))),
                         createdBy |-> me, deleted |-> FALSE]
           IN Out(Ok([board |-> BoardView(board)]),
                  users, Append(boards, board), stages, tasks,
                  <<"board.findFirstOrThrow", "board.create">>)

(* data: { title: input.title || "", description } *)
PatchBoard_blankTitle(b, input) ==
  [b EXCEPT !.title = IF input.title = None THEN "" ELSE Val(input.title),
            !.description = IF input.description = None THEN @ ELSE Val(input.description)]

(* data: { title, description }: an undefined field is left alone *)
PatchBoard(b, input) ==
  [b EXCEPT !.title = IF input.title = None THEN @ ELSE Val(input.title),
            !.description = IF input.description = None THEN @ ELSE Val(input.description)]

board_update_handler(ctx, input) ==
  IF ctx.user = None THEN NoWrite(TypeError, <<>>)
  ELSE
    LET me == Val(ctx.user).externalID
        own == OwnLive(boards, input.externalID, me)
    IN IF own = None
         THEN NoWrite(NotFoundError, <<"board.findFirstOrThrow">>)
         ELSE
           LET after == UpdateRow(boards, input.externalID, [i \in 1..Len(boards) |-> PatchBoard(boards[i], input)])
           IN Out(Ok([board |-> BoardView(RowOf(after, input.externalID))]),
                  users, after, stages, tasks,
                  <<"board.findFirstOrThrow", "board.update">>)

(* a delete that also marks the stages of the board and their tasks *)
board_delete_handler_cascade(ctx, input) ==
  IF ctx.user = None THEN NoWrite(TypeError, <<>>)
  ELSE
    LET me == Val(ctx.user).externalID
        own == OwnLive(boards, input.externalID, me)
        under(t) == \E i \in 1..Len(stages) :
                      stages[i].externalID = t.stage /\ stages[i].board = input.externalID
    IN IF own = None
         THEN NoWrite(NotFoundError, <<"board.findFirstOrThrow">>)
         ELSE Out(Ok([empty |-> TRUE]),
                  users,
                  UpdateRow(boards, input.externalID, [i \in 1..Len(boards) |-> SoftDelete(boards[i])]),
                  [i \in 1..Len(stages) |->
                     IF stages[i].board = input.externalID THEN SoftDelete(stages[i])
                     ELSE stages[i]],
                  [i \in 1..Len(tasks) |->
                     IF under(tasks[i]) THEN SoftDelete(tasks[i]) ELSE tasks[i]],
                  <<"board.findFirstOrThrow", "board.update">>)

board_delete_handler(ctx, input) ==
  IF ctx.user = None THEN NoWrite(TypeError, <<>>)
  ELSE
    LET me == Val(ctx.user).externalID
        own == OwnLive(boards, input.externalID, me)
    IN IF own = None
         THEN NoWrite(NotFoundError, <<"board.findFirstOrThrow">>)
         ELSE Out(Ok([empty |-> TRUE]),
                  users, UpdateRow(boards, input.externalID, [i \in 1..Len(boards) |-> SoftDelete(boards[i])]), stages, tasks,
                  <<"board.findFirstOrThrow", "board.update">>)

board_list(h, input) ==
  /\ resp = NoRequest
  /\ \E ctx \in {BuildContext(h)} :
       Serve("board.list", h, ctx, input, Caught(board_list_handler(ctx, input), "Something went wrong"))

board_get(h, input) ==
  /\ resp = NoRequest
  /\ \E ctx \in {BuildContext(h)} :
       Serve("board.get", h, ctx, input, Caught(board_get_handler(ctx, input), "Something went wrong"))

board_create(h, input) ==
  /\ resp = NoRequest
  /\ \E ctx \in {BuildContext(h)} :
       Serve("board.create", h, ctx, input, Caught(board_create_handler(ctx, input), "error"))

board_update(h, input) ==
  /\ resp = NoRequest
  /\ \E ctx \in {BuildContext(h)} :
       Serve("board.update", h, ctx, input, Caught(board_update_handler(ctx, input), "error"))

board_delete(h, input) ==
  /\ resp = NoRequest
  /\ \E ctx \in {BuildContext(h)} :
       Serve("board.delete", h, ctx, input, Caught(board_delete_handler(ctx, input), "error"))

----------------------------------------------------------------------------
(* stageRouter *)

BoardRef(id) ==
  LET b == RowOf(boards, id) IN [externalID |-> id, title |-> b.title]

(* include: { createdBy: true, board: true } *)
StageView(s) ==
  [externalID |-> s.externalID, title |-> s.title, description |-> s.description,
   createdBy |-> UserNameRef(s.createdBy), board |-> BoardRef(s.board)]

TaskBrief(t) == [externalID |-> t.externalID, title |-> t.title]

(* include: { Task: true }: every task row that references the stage *)
TasksOfStage(id) == SelectSeq(tasks, LAMBDA t : t.stage = id)

StageViews(rows) == [i \in 1..Len(rows) |-> StageView(rows[i])]
TaskBriefs(rows) == [i \in 1..Len(rows) |-> TaskBrief(rows[i])]

stage_list_handler(ctx, input) ==
  IF ctx.user = None THEN NoWrite(TypeError, <<>>)
  ELSE
    LET me == Val(ctx.user).externalID
        found == FindMany(SelectSeq(stages, LAMBDA r : ~r.deleted /\ r.createdBy = me),
                          input.limit, input.offset)
    IN NoWrite(Ok([stages |-> StageViews(found)]), <<"stage.findMany">>)

stage_get_handler(ctx, input) ==
  IF ctx.user = None THEN NoWrite(TypeError, <<>>)
  ELSE
    LET me == Val(ctx.user).externalID
        stage == OwnLive(stages, input.externalID, me)
    IN IF stage = None
         THEN NoWrite(NotFoundError, <<"stage.findFirstOrThrow">>)
         ELSE NoWrite(Ok([stage |-> StageView(Val(stage))
                                    @@ [task |-> TaskBriefs(TasksOfStage(input.externalID))]]),
                      <<"stage.findFirstOrThrow">>)

(* the guard looks in the BOARD table for a row titled like the new stage; *)
(* board: { connect: { externalID } } needs only that the board row exists *)
stage_create_handler(ctx, input) ==
  IF ctx.user = None THEN NoWrite(TypeError, <<>>)
  ELSE
    LET me == Val(ctx.user).externalID
        same == OwnLiveTitled(boards, input.title, me)
    IN IF same = None
         THEN NoWrite(NotFoundError, <<"board.findFirstOrThrow">>)
       ELSE IF ~Exists(boards, input.boardExternalID)
         THEN NoWrite(Throw("PrismaClientKnownRequestError", "connect: record not found"),
                      <<"board.findFirstOrThrow", "stage.create">>)
       ELSE
         LET stage == [externalID |-> StageID(Len(stages) + 1),
                       title |-> input.title, description |-> input.description,
                       createdBy |-> me, board |-> input.boardExternalID,
                       deleted |-> FALSE]
         IN Out(Ok([stage |-> StageView(stage)]),
                users, boards, Append(stages, stage), tasks,
                <<"board.findFirstOrThrow", "stage.create">>)

(* data: { title, description }, both required by the input schema *)
PatchStage(r, input) ==
  [r EXCEPT !.title = input.title, !.description = input.description]

stage_update_handler(ctx, input) ==
  IF ctx.user = None THEN NoWrite(TypeError, <<>>)
  ELSE
    LET me == Val(ctx.user).externalID
        own == OwnLive(stages, input.externalID, me)
    IN IF own = None
         THEN NoWrite(NotFoundError, <<"stage.findFirstOrThrow">>)
         ELSE
           LET after == UpdateRow(stages, input.externalID, [i \in 1..Len(stages) |-> PatchStage(stages[i], input)])
           IN Out(Ok([stage |-> StageView(RowOf(after, input.externalID))]),
                  users, boards, after, tasks,
                  <<"stage.findFirstOrThrow", "stage.update">>)

stage_delete_handler(ctx, input) ==
  IF ctx.user = None THEN NoWrite(TypeError, <<>>)
  ELSE
    LET me == Val(ctx.user).externalID
        own == OwnLive(stages, input.externalID, me)
    IN IF own = None
         THEN NoWrite(NotFoundError, <<"stage.findFirstOrThrow">>)
         ELSE Out(Ok([empty |-> TRUE]),
                  users, boards, UpdateRow(stages, input.externalID, [i \in 1..Len(stages) |-> SoftDelete(stages[i])]), tasks,
                  <<"stage.findFirstOrThrow", "stage.update">>)

stage_list(h, input) ==
  /\ resp = NoRequest
  /\ \E ctx \in {BuildContext(h)} :
       Serve("stage.list", h, ctx, input, Caught(stage_list_handler(ctx, input), "Something went wrong"))

stage_get(h, input) ==
  /\ resp = NoRequest
  /\ \E ctx \in {BuildContext(h)} :
       Serve("stage.get", h, ctx, input, Caught(stage_get_handler(ctx, input), "Something went wrong"))

stage_create(h, input) ==
  /\ resp = NoRequest
  /\ \E ctx \in {BuildContext(h)} :
       Serve("stage.create", h, ctx, input, Caught(stage_create_handler(ctx, input), "Something went wrong"))

stage_update(h, input) ==
  /\ resp = NoRequest
  /\ \E ctx \in {BuildContext(h)} :
       Serve("stage.update", h, ctx, input, Caught(stage_update_handler(ctx, input), "Something went wrong"))

stage_delete(h, input) ==
  /\ resp = NoRequest
  /\ \E ctx \in {BuildContext(h)} :
       Serve("stage.delete", h, ctx, input, Caught(stage_delete_handler(ctx, input), "Something went wrong"))

----------------------------------------------------------------------------
(* taskRouter *)

StageRef(id) ==
  LET s == RowOf(stages, id) IN [externalID |-> id, title |-> s.title]

(* stage: { include: { board: true } } *)
StageBoardRef(id) ==
  LET s == RowOf(stages, id)
  IN [externalID |-> id, title |-> s.title, board |-> BoardRef(s.board)]

(* include: { createdBy: true, stage: true } *)
TaskListView(t) ==
  [externalID |-> t.externalID, title |-> t.title, description |-> t.description,
   dueDate |-> t.dueDate, priority |-> t.priority,
   createdBy |-> UserRef(t.createdBy), stage |-> StageRef(t.stage)]

(* include: { createdBy: true, stage: { include: { board: true } } } *)
TaskView(t) ==
  [externalID |-> t.externalID, title |-> t.title, description |-> t.description,
   dueDate |-> t.dueDate, priority |-> t.priority,
   createdBy |-> UserRef(t.createdBy), stage |-> StageBoardRef(t.stage)]

TaskListViews(rows) == [i \in 1..Len(rows) |-> TaskListView(rows[i])]

task_list_handler(ctx, input) ==
  IF ctx.user = None THEN NoWrite(TypeError, <<>>)
  ELSE
    LET me == Val(ctx.user).externalID
        found == FindMany(SelectSeq(tasks, LAMBDA r : ~r.deleted /\ r.createdBy = me),
                          input.limit, input.offset)
    IN NoWrite(Ok([tasks |-> TaskListViews(found)]), <<"task.findMany">>)

task_get_handler(ctx, input) ==
  IF ctx.user = None THEN NoWrite(TypeError, <<>>)
  ELSE
    LET me == Val(ctx.user).externalID
        task == OwnLive(tasks, input.externalID, me)
    IN IF task = None
         THEN NoWrite(NotFoundError, <<"task.findFirstOrThrow">>)
         ELSE NoWrite(Ok([task |-> TaskView(Val(task))]), <<"task.findFirstOrThrow">>)

(* the guard looks for a stage of the caller titled like the new task;     *)
(* stage: { connect: { externalID } } needs only that the stage row exists *)
task_create_handler(ctx, input) ==
  IF ctx.user = None THEN NoWrite(TypeError, <<>>)
  ELSE
    LET me == Val(ctx.user).externalID
        same == OwnLiveTitled(stages, input.title, me)
    IN IF same = None
         THEN NoWrite(NotFoundError, <<"stage.findFirstOrThrow">>)
       ELSE IF ~Exists(stages, input.stageExternalID)
         THEN NoWrite(Throw("PrismaClientKnownRequestError", "connect: record not found"),
                      <<"stage.findFirstOrThrow", "task.create">>)
       ELSE
         LET task == [externalID |-> TaskID(Len(tasks) + 1),
                      title |-> input.title, description |-> input.description,
                      dueDate |-> Val(OrObj(input.dueDate, Some(now))),
                      priority |-> input.priority,
                      createdBy |-> me, stage |-> input.stageExternalID,
                      deleted |-> FALSE]
         IN Out(Ok([task |-> TaskView(task)]),
                users, boards, stages, Append(tasks, task),
                <<"stage.findFirstOrThrow", "task.create">>)

(* data: { priority: { increment: input.priority } } *)
PatchTask_addPriority(t, input) ==
  [t EXCEPT !.priority = (@ + Val(OrNum(input.priority, Some(0)))) % 4,
            !.stage = Val(OrObj(input.stageExternalID, Some(t.stage)))]

(* data with an externalID of its own *)
PatchTask_newID(t, input) ==
  [t EXCEPT !.externalID = <<"task", 0>>,
            !.priority = Val(OrNum(input.priority, Some(t.priority))),
            !.stage = Val(OrObj(input.stageExternalID, Some(t.stage)))]

(* data: { title: input.title || task.title, ... } *)
PatchTask(t, input) ==
  [t EXCEPT !.title = Val(OrStr(input.title, Some(t.title))),
            !.description = OrStr(input.description, t.description),
            !.dueDate = Val(OrObj(input.dueDate, Some(t.dueDate))),
            !.priority = Val(OrNum(input.priority, Some(t.priority))),
            !.stage = Val(OrObj(input.stageExternalID, Some(t.stage)))]

(* returns the task as read before the update *)
task_update_handler(ctx, input) ==
  IF ctx.user = None THEN NoWrite(TypeError, <<>>)
  ELSE
    LET me == Val(ctx.user).externalID
        task == OwnLive(tasks, input.externalID, me)
    IN IF task = None
         THEN NoWrite(NotFoundError, <<"task.findFirstOrThrow">>)
       ELSE IF ~Exists(stages, Val(OrObj(input.stageExternalID, Some(Val(task).stage))))
         THEN NoWrite(Throw("PrismaClientKnownRequestError", "connect: record not found"),
                      <<"task.findFirstOrThrow", "task.update">>)
       ELSE Out(Ok([task |-> TaskView(Val(task))]),
                users, boards, stages,
                UpdateRow(tasks, input.externalID, [i \in 1..Len(tasks) |-> PatchTask(tasks[i], input)]),
                <<"task.findFirstOrThrow", "task.update">>)

task_delete_handler(ctx, input) ==
  IF ctx.user = None THEN NoWrite(TypeError, <<>>)
  ELSE
    LET me == Val(ctx.user).externalID
        own == OwnLive(tasks, input.externalID, me)
    IN IF own = None
         THEN NoWrite(NotFoundError, <<"task.findFirstOrThrow">>)
         ELSE Out(Ok([empty |-> TRUE]),
                  users, boards, stages, UpdateRow(tasks, input.externalID, [i \in 1..Len(tasks) |-> SoftDelete(tasks[i])]),
                  <<"task.findFirstOrThrow", "task.update">>)

task_list(h, input) ==
  /\ resp = NoRequest
  /\ \E ctx \in {BuildContext(h)} :
       Serve("task.list", h, ctx, input, Caught(task_list_handler(ctx, input), "Failed to get tasks"))

task_get(h, input) ==
  /\ resp = NoRequest
  /\ \E ctx \in {BuildContext(h)} :
       Serve("task.get", h, ctx, input, Caught(task_get_handler(ctx, input), "Failed to get task"))

task_create(h, input) ==
  /\ resp = NoRequest
  /\ \E ctx \in {BuildContext(h)} :
       Serve("task.create", h, ctx, input, Caught(task_create_handler(ctx, input), "Failed to create task"))

task_update(h, input) ==
  /\ resp = NoRequest
  /\ \E ctx \in {BuildContext(h)} :
       Serve("task.update", h, ctx, input, Caught(task_update_handler(ctx, input), "Failed to update task"))

task_delete(h, input) ==
  /\ resp = NoRequest
  /\ \E ctx \in {BuildContext(h)} :
       Serve("task.delete", h, ctx, input, Caught(task_delete_handler(ctx, input), "Failed to delete task"))

----------------------------------------------------------------------------
(* Inputs *)

DefaultPage == [limit |-> DefaultLimit, offset |-> DefaultOffset]

UserIDs == {UserID(n) : n \in 1..Cardinality(Usernames)}
(* the ids of the rows there are, and one that names no row *)
BoardIDs == {BoardID(n) : n \in 1..(Len(boards) + 1)}
StageIDs == {StageID(n) : n \in 1..(Len(stages) + 1)}
TaskIDs == {TaskID(n) : n \in 1..(Len(tasks) + 1)}

RegisterInputs ==
  [username : Usernames, name : {"n1"}, email : {"e1"}, password : {"password1"}]
LoginInputs == [username : Usernames, password : Passwords]
UpdateUserInputs ==
  [externalID : {UserID(2)}, name : {None, Some("n2")}, email : {None},
   password : {None, Some("password2")}]
DeleteUserInputs == [externalID : {UserID(1)}]

ByID(ids) == [externalID : ids]

BoardCreateInputs == [title : Titles, description : {None}]
BoardUpdateInputs == [externalID : BoardIDs, title : {None}, description : {Some("d1")}]
StageCreateInputs == [title : Titles, description : {"d1"}, boardExternalID : BoardIDs]
StageUpdateInputs == [externalID : StageIDs, title : {"t1"}, description : {"d1"}]
TaskCreateInputs ==
  [title : Titles, description : {None}, dueDate : {None}, priority : {0},
   stageExternalID : StageIDs]
TaskUpdateInputs ==
  [externalID : TaskIDs, title : {None}, description : {None}, dueDate : {None},
   priority : {Some(0), Some(1)},
   stageExternalID : {None} \cup {Some(i) : i \in StageIDs}]

----------------------------------------------------------------------------
(* The board, stage and task routers on a database that holds two users    *)
(* and boards of theirs.  The database outlives the server (DATABASE_URL): *)
(* the rows are those an earlier run left, one board per title and owner.  *)

Alice ==
  [externalID |-> UserID(1), username |-> "alice", name |-> "n1", email |-> "e1",
   password |-> BcryptHash("password1", 1), deleted |-> FALSE]
Bob ==
  [externalID |-> UserID(2), username |-> "bob", name |-> "n1", email |-> "e1",
   password |-> BcryptHash("password1", 2), deleted |-> FALSE]

SeedBoard(n, owner) ==
  [externalID |-> BoardID(n), title |-> "t1", description |-> "",
   createdBy |-> owner, deleted |-> FALSE]

SeedBoards ==
  {<<>>, <<SeedBoard(1, UserID(1))>>,
   <<SeedBoard(1, UserID(1)), SeedBoard(2, UserID(2))>>}

Init ==
  /\ users = <<Alice, Bob>>
  /\ boards \in SeedBoards
  /\ stages = <<>>
  /\ tasks = <<>>
  /\ jar = {JwtSign(UserID(1), JWT_SECRET, 0), JwtSign(UserID(2), JWT_SECRET, 0)}
  /\ now = 0
  /\ context \in ContextBuilders
  /\ resp = NoRequest
  /\ inflight = <<>>

Next ==
  \/ \E h \in ClientHeaders : board_list(h, DefaultPage)
  \/ \E h \in ClientHeaders, i \in ByID(BoardIDs) : board_get(h, i)
  \/ \E h \in ClientHeaders, i \in BoardCreateInputs : board_create(h, i)
  \/ \E h \in ClientHeaders, i \in BoardUpdateInputs : board_update(h, i)
  \/ \E h \in ClientHeaders, i \in ByID(BoardIDs) : board_delete(h, i)
  \/ \E h \in ClientHeaders : stage_list(h, DefaultPage)
  \/ \E h \in ClientHeaders, i \in ByID(StageIDs) : stage_get(h, i)
  \/ \E h \in ClientHeaders, i \in StageCreateInputs : stage_create(h, i)
  \/ \E h \in ClientHeaders, i \in StageUpdateInputs : stage_update(h, i)
  \/ \E h \in ClientHeaders, i \in ByID(StageIDs) : stage_delete(h, i)
  \/ \E h \in ClientHeaders : task_list(h, DefaultPage)
  \/ \E h \in ClientHeaders, i \in ByID(TaskIDs) : task_get(h, i)
  \/ \E h \in ClientHeaders, i \in TaskCreateInputs : task_create(h, i)
  \/ \E h \in ClientHeaders, i \in TaskUpdateInputs : task_update(h, i)
  \/ \E h \in ClientHeaders, i \in ByID(TaskIDs) : task_delete(h, i)
  \/ SendResponse

Spec == Init /\ [][Next]_vars

----------------------------------------------------------------------------
(* The whole API on an empty database *)

InitFresh ==
  /\ users = <<>>
  /\ boards = <<>>
  /\ stages = <<>>
  /\ tasks = <<>>
  /\ jar = {}
  /\ now = 0
  /\ context \in ContextBuilders
  /\ resp = NoRequest
  /\ inflight = <<>>

NextFresh ==
  \/ \E h \in Headers, i \in RegisterInputs : auth_register(h, i, 1)
  \/ \E h \in Headers, i \in RegisterInputs : auth_register2(h, i, 1)
  \/ \E h \in Headers, i \in LoginInputs : auth_login(h, i)
  \/ \E h \in Headers, i \in LoginInputs : auth_login2(h, i)
  \/ \E h \in Headers : user_me(h)
  \/ \E h \in Headers, i \in UpdateUserInputs : user_updateUser(h, i, 1)
  \/ \E h \in Headers, i \in DeleteUserInputs : user_deleteUser(h, i)
  \/ \E h \in Headers : board_list(h, DefaultPage)
  \/ \E h \in Headers : board_get(h, [externalID |-> BoardID(1)])
  \/ \E h \in Headers : board_create(h, [title |-> "t1", description |-> None])
  \/ \E h \in Headers :
       board_update(h, [externalID |-> BoardID(1), title |-> Some("t1"), description |-> None])
  \/ \E h \in Headers : board_delete(h, [externalID |-> BoardID(1)])
  \/ \E h \in Headers : stage_list(h, DefaultPage)
  \/ \E h \in Headers : stage_get(h, [externalID |-> StageID(1)])
  \/ \E h \in Headers :
       stage_create(h, [title |-> "t1", description |-> "d1", boardExternalID |-> BoardID(1)])
  \/ \E h \in Headers :
       stage_update(h, [externalID |-> StageID(1), title |-> "t1", description |-> "d1"])
  \/ \E h \in Headers : stage_delete(h, [externalID |-> StageID(1)])
  \/ \E h \in Headers : task_list(h, DefaultPage)
  \/ \E h \in Headers : task_get(h, [externalID |-> TaskID(1)])
  \/ \E h \in Headers :
       task_create(h, [title |-> "t1", description |-> None, dueDate |-> None,
                       priority |-> 0, stageExternalID |-> StageID(1)])
  \/ \E h \in Headers :
       task_update(h, [externalID |-> TaskID(1), title |-> None, description |-> None,
                       dueDate |-> None, priority |-> None, stageExternalID |-> None])
  \/ \E h \in Headers : task_delete(h, [externalID |-> TaskID(1)])
  \/ Tick
  \/ SendResponse

SpecFresh == InitFresh /\ [][NextFresh]_vars

----------------------------------------------------------------------------
(* The mutations of one user on a database that holds her board: register, *)
(* and create, update and delete on each of the four tables *)

Carol == [username |-> "carol", name |-> "n1", email |-> "e1", password |-> "password1"]

(* a new password, and the externalID of another user, which the handler *)
(* never reads *)
NewPassword ==
  [externalID |-> UserID(2), name |-> None, email |-> None, password |-> Some("password2")]

InitMutations ==
  /\ users = <<Alice, Bob>>
  /\ boards = <<SeedBoard(1, UserID(1))>>
  /\ stages = <<>>
  /\ tasks = <<>>
  /\ jar = {JwtSign(UserID(1), JWT_SECRET, 0)}
  /\ now = 0
  /\ context \in ContextBuilders
  /\ resp = NoRequest
  /\ inflight = <<>>

NextMutations ==
  \/ \E h \in ClientHeaders : auth_register2(h, Carol, 1)
  \/ \E h \in ClientHeaders : user_updateUser(h, NewPassword, 1)
  \/ \E h \in ClientHeaders, i \in DeleteUserInputs : user_deleteUser(h, i)
  \/ \E h \in ClientHeaders, i \in BoardCreateInputs : board_create(h, i)
  \/ \E h \in ClientHeaders, i \in BoardUpdateInputs : board_update(h, i)
  \/ \E h \in ClientHeaders, i \in ByID(BoardIDs) : board_delete(h, i)
  \/ \E h \in ClientHeaders, i \in StageCreateInputs : stage_create(h, i)
  \/ \E h \in ClientHeaders, i \in StageUpdateInputs : stage_update(h, i)
  \/ \E h \in ClientHeaders, i \in ByID(StageIDs) : stage_delete(h, i)
  \/ \E h \in ClientHeaders, i \in TaskCreateInputs : task_create(h, i)
  \/ \E h \in ClientHeaders, i \in TaskUpdateInputs : task_update(h, i)
  \/ \E h \in ClientHeaders, i \in ByID(TaskIDs) : task_delete(h, i)
  \/ SendResponse

SpecMutations == InitMutations /\ [][NextMutations]_vars

----------------------------------------------------------------------------
(* Requests served at once.  A handler runs from one await to the next     *)
(* without interruption and another request may run at each await: the     *)
(* steps of a request are createContext with the middleware, the query     *)
(* that guards the write, and the write *)

Slots == 1..MaxInflight

Idle ==
  [pc |-> "idle", op |-> "none", caught |-> FALSE, caller |-> None, input |-> None,
   found |-> None, passed |-> FALSE, code |-> ""]

Answered(req, code) == [req EXCEPT !.pc = "done", !.code = code]

TableOf(op) ==
  IF op \in {"board.get", "board.update", "board.delete"} THEN boards
  ELSE IF op \in {"stage.get", "stage.update", "stage.delete"} THEN stages
  ELSE tasks

SeedStage ==
  [externalID |-> StageID(1), title |-> "t1", description |-> "d1",
   createdBy |-> UserID(1), board |-> BoardID(1), deleted |-> FALSE]

SeedTask ==
  [externalID |-> TaskID(1), title |-> "t1", description |-> None, dueDate |-> 0,
   priority |-> 0, createdBy |-> UserID(1), stage |-> StageID(1), deleted |-> FALSE]

(* the requests clients send at once: registrations of one username to     *)
(* either definition of auth.register, and an update and a delete of one   *)
(* row of each table *)
RaceRequests ==
  {[op |-> "auth.register", caught |-> c, input |-> Carol] : c \in BOOLEAN}
  \cup {[op |-> "board.update", caught |-> TRUE,
         input |-> [externalID |-> BoardID(1), title |-> None, description |-> Some("d1")]],
        [op |-> "board.delete", caught |-> TRUE, input |-> [externalID |-> BoardID(1)]],
        [op |-> "stage.update", caught |-> TRUE,
         input |-> [externalID |-> StageID(1), title |-> "t2", description |-> "d1"]],
        [op |-> "stage.delete", caught |-> TRUE, input |-> [externalID |-> StageID(1)]],
        [op |-> "task.update", caught |-> TRUE,
         input |-> [externalID |-> TaskID(1), title |-> None, description |-> None,
                    dueDate |-> None, priority |-> Some(1), stageExternalID |-> None]],
        [op |-> "task.delete", caught |-> TRUE, input |-> [externalID |-> TaskID(1)]]}

(* what the client gets of a throw: the handler's catch, then tRPC *)
Thrown(req, r) ==
  TrpcError(IF req.caught THEN CatchAll(r, "Something went wrong") ELSE r).code

(* the request arrives: createContext and the middleware *)
Receive(s, h, req) ==
  /\ resp = NoRequest
  /\ inflight[s].pc = "idle"
  /\ \E ctx \in {BuildContext(h)} :
       inflight' = [inflight EXCEPT ![s] =
         IF ctx.threw THEN Answered([Idle EXCEPT !.op = req.op], "INTERNAL_SERVER_ERROR")
         ELSE IF ~Runs(req.op, ctx) THEN Answered([Idle EXCEPT !.op = req.op], "UNAUTHORIZED")
         ELSE [Idle EXCEPT !.pc = "check", !.op = req.op, !.caught = req.caught,
                           !.input = Some(req.input),
                           !.caller = IF ctx.user = None THEN None
                                      ELSE Some(Val(ctx.user).externalID)]]
  /\ UNCHANGED <<users, boards, stages, tasks, jar, now, context, resp>>

(* register: await prisma.user.findUnique({ where: { username } }) and the *)
(* throw on an existing user *)
register_findUnique(s) ==
  /\ inflight[s].pc = "check" /\ inflight[s].op = "auth.register"
  /\ \E req \in {inflight[s]} :
       inflight' = [inflight EXCEPT ![s] =
         IF UserByUsername(Val(req.input).username) # None
           THEN Answered(req, Thrown(req, Throw("BAD_REQUEST", "User already exists")))
           ELSE [req EXCEPT !.pc = "write", !.passed = TRUE]]
  /\ UNCHANGED <<users, boards, stages, tasks, jar, now, context, resp>>

(* model User { username String @unique }: the create of a second row with *)
(* a stored username throws PrismaClientKnownRequestError P2002 *)
UniqueConstraintFailed(username) == UserByUsername(username) # None

(* register: await prisma.user.create({ data }) and the return *)
register_create(s) ==
  /\ inflight[s].pc = "write" /\ inflight[s].op = "auth.register"
  /\ \E req \in {inflight[s]} :
       IF UniqueConstraintFailed(Val(req.input).username)
         THEN /\ inflight' = [inflight EXCEPT ![s] =
                   Answered(req, Thrown(req, Throw("PrismaClientKnownRequestError",
                                                   "Unique constraint failed")))]
              /\ users' = users
         ELSE /\ inflight' = [inflight EXCEPT ![s] = Answered(req, "OK")]
              /\ users' = registerBody(Val(req.input), 1).users
  /\ UNCHANGED <<boards, stages, tasks, jar, now, context, resp>>

(* update and delete: await prisma.x.findFirstOrThrow({ where: {           *)
(* externalID, deleted: false, createdBy } }) *)
findFirstOrThrow(s) ==
  /\ inflight[s].pc = "check" /\ inflight[s].op # "auth.register"
  /\ \E req \in {inflight[s]} :
       \E row \in {OwnLive(TableOf(req.op), Val(req.input).externalID, Val(req.caller))} :
         inflight' = [inflight EXCEPT ![s] =
           IF row = None THEN Answered(req, Thrown(req, NotFoundError))
           ELSE [req EXCEPT !.pc = "write", !.passed = TRUE, !.found = row]]
  /\ UNCHANGED <<users, boards, stages, tasks, jar, now, context, resp>>

(* task.update: the data is made of the input and of the task as it was    *)
(* read by findFirstOrThrow *)
TaskData(row, task, input) ==
  LET data == PatchTask(task, input)
  IN [row EXCEPT !.title = data.title, !.description = data.description,
                 !.dueDate = data.dueDate, !.priority = data.priority,
                 !.stage = data.stage]

(* the row after prisma.x.update({ where: { externalID }, data }) of the   *)
(* request *)
Written(req, row) ==
  IF req.op = "board.update" THEN PatchBoard(row, Val(req.input))
  ELSE IF req.op = "stage.update" THEN PatchStage(row, Val(req.input))
  ELSE IF req.op = "task.update" THEN TaskData(row, Val(req.found), Val(req.input))
  ELSE SoftDelete(row)

(* update and delete: await prisma.x.update({ where: { externalID }, data  *)
(* }) and the return *)
update(s) ==
  /\ inflight[s].pc = "write" /\ inflight[s].op # "auth.register"
  /\ \E req \in {inflight[s]} :
       \E rows \in {TableOf(req.op)} :
         \E after \in {UpdateRow(rows, Val(req.input).externalID,
                                 [i \in 1..Len(rows) |-> Written(req, rows[i])])} :
           /\ boards' = IF RouterOf(req.op) = "board" THEN after ELSE boards
           /\ stages' = IF RouterOf(req.op) = "stage" THEN after ELSE stages
           /\ tasks' = IF RouterOf(req.op) = "task" THEN after ELSE tasks
           /\ inflight' = [inflight EXCEPT ![s] = Answered(req, "OK")]
  /\ UNCHANGED <<users, jar, now, context, resp>>

(* the response is written and the connection serves the next request *)
Respond(s) ==
  /\ inflight[s].pc = "done"
  /\ inflight' = [inflight EXCEPT ![s] = Idle]
  /\ UNCHANGED <<users, boards, stages, tasks, jar, now, context, resp>>

InitRace ==
  /\ users = <<Alice, Bob>>
  /\ boards = <<SeedBoard(1, UserID(1))>>
  /\ stages = <<SeedStage>>
  /\ tasks = <<SeedTask>>
  /\ jar = {JwtSign(UserID(1), JWT_SECRET, 0)}
  /\ now = 0
  /\ context \in ContextBuilders
  /\ resp = NoRequest
  /\ inflight = [s \in Slots |-> Idle]

NextRace ==
  \/ \E s \in Slots, h \in ClientHeaders, req \in RaceRequests : Receive(s, h, req)
  \/ \E s \in Slots : register_findUnique(s)
  \/ \E s \in Slots : register_create(s)
  \/ \E s \in Slots : findFirstOrThrow(s)
  \/ \E s \in Slots : update(s)
  \/ \E s \in Slots : Respond(s)

SpecRace == InitRace /\ [][NextRace]_vars

----------------------------------------------------------------------------
(* Claims *)

Served == resp # NoRequest
Range(f) == {f[i] : i \in DOMAIN f}
Tables == <<users, boards, stages, tasks>>

RouterOps == Ops \ {"auth.register", "auth.login"}
ReadOps == {"board.list", "board.get", "stage.list", "stage.get", "task.list", "task.get"}
WriteOps == {"board.update", "board.delete", "stage.update", "stage.delete",
             "task.update", "task.delete"}

(* the table an update, delete or get names its target in *)
EntityRow(id) ==
  IF id[1] = "board" THEN RowOf(boards, id)
  ELSE IF id[1] = "stage" THEN RowOf(stages, id)
  ELSE RowOf(tasks, id)

(* the externalIDs of the boards, stages and tasks a read returned, at the *)
(* top level or nested *)
Returned(r) ==
  IF r.op = "board.list" THEN {b.externalID : b \in Range(r.payload.boards)}
  ELSE IF r.op = "board.get"
    THEN {r.payload.board.externalID}
         \cup {x.externalID : x \in Range(r.payload.board.stage)}
  ELSE IF r.op = "stage.list"
    THEN UNION {{x.externalID, x.board.externalID} : x \in Range(r.payload.stages)}
  ELSE IF r.op = "stage.get"
    THEN {r.payload.stage.externalID, r.payload.stage.board.externalID}
         \cup {t.externalID : t \in Range(r.payload.stage.task)}
  ELSE IF r.op = "task.list"
    THEN UNION {{t.externalID, t.stage.externalID} : t \in Range(r.payload.tasks)}
  ELSE IF r.op = "task.get"
    THEN {r.payload.task.externalID, r.payload.task.stage.externalID,
          r.payload.task.stage.board.externalID}
  ELSE {}

(* a live row of the table with that externalID, created by me *)
HasOwnLive(rows, id, me) ==
  \E i \in 1..Len(rows) :
    rows[i].externalID = id /\ ~rows[i].deleted /\ rows[i].createdBy = me

(* a live row of the table with that title, created by me *)
HasOwnLiveTitled(rows, title, me) ==
  \E i \in 1..Len(rows) :
    rows[i].title = title /\ ~rows[i].deleted /\ rows[i].createdBy = me

ReadOk == Served /\ resp.op \in ReadOps /\ resp.code = "OK"

C2_ReadIsolation ==
  ReadOk => \A id \in Returned(resp) : EntityRow(id).createdBy = Val(resp.caller)

(* C3: an update or delete whose target is missing, soft-deleted or owned  *)
(* by another user ends in an error and leaves every row of every table    *)
(* unchanged; a row of Board, Stage or Task changes only in a request of   *)
(* its owner *)
C3_WriteIsolation ==
  [][resp' # NoRequest =>
       /\ (resp'.op \in WriteOps
           /\ (~resp'.ran
               \/ ~HasOwnLive(TableOf(resp'.op), Val(resp'.input).externalID,
                              Val(resp'.caller))))
            => (resp'.code # "OK" /\ Tables' = Tables)
       /\ \A i \in 1..Len(boards) :
            boards'[i] # boards[i] => resp'.caller = Some(boards[i].createdBy)
       /\ \A i \in 1..Len(stages) :
            stages'[i] # stages[i] => resp'.caller = Some(stages[i].createdBy)
       /\ \A i \in 1..Len(tasks) :
            tasks'[i] # tasks[i] => resp'.caller = Some(tasks[i].createdBy)]_vars

(* bob's delete of alice's live board was refused *)
C3_Witness ==
  /\ Served /\ resp.op = "board.delete" /\ resp.ran
  /\ resp.caller = Some(UserID(2))
  /\ resp.input = Some([externalID |-> BoardID(1)])
  /\ Len(boards) >= 1
  /\ boards[1].createdBy = UserID(1) /\ ~boards[1].deleted
  /\ resp.code # "OK"

(* C4: no successful get or list returns, at the top level or nested, a    *)
(* board, stage or task whose deleted flag is set *)
C4_NoDeletedInResults ==
  ReadOk => \A id \in Returned(resp) : ~EntityRow(id).deleted

(* C5: auth.register with a username a stored user has answers BAD_REQUEST *)
(* "User already exists" and leaves the users as they were *)
C5_DuplicateUsernameIsBadRequest ==
  [][(resp' # NoRequest /\ resp'.op = "auth.register" /\ resp'.ran
      /\ UserByUsername(Val(resp'.input).username) # None)
       => /\ resp'.code = "BAD_REQUEST"
          /\ resp'.message = "User already exists"
          /\ users' = users]_vars

(* C6: auth.login answers BAD_REQUEST "Invalid credentials" and no token   *)
(* for an unknown username and for a password that does not match the      *)
(* stored hash alike, and returns a token only when the password matches *)
C6_InvalidCredentialsIsBadRequest ==
  (Served /\ resp.op = "auth.login" /\ resp.ran) =>
    LET u == UserByUsername(Val(resp.input).username)
        match == u # None /\ BcryptCompare(Val(resp.input).password, Val(u).password)
    IN /\ match => resp.code = "OK"
       /\ ~match => /\ resp.code = "BAD_REQUEST"
                    /\ resp.message = "Invalid credentials"
                    /\ resp.payload = None

(* C7: the token auth.login returned for a user, sent as Bearer within its *)
(* expiry window, makes the context builder resolve ctx.user to that       *)
(* user's record *)
C7_TokenRoundTrip ==
  /\ (Served /\ resp.op = "auth.login" /\ resp.code = "OK") =>
       LET c == BuildContext(<<"Bearer", resp.payload.token>>)
       IN ~c.threw /\ c.user = UserByUsername(Val(resp.input).username)
  /\ \A t \in jar :
       now < t.payload.exp =>
         LET c == BuildContext(<<"Bearer", t>>)
         IN /\ ~c.threw /\ c.user # None
            /\ Val(c.user).externalID = t.payload.externalID

(* the request carried a token that verification rejects *)
BadToken(h) ==
  /\ BearerToken(h) # None
  /\ JwtVerify(Val(BearerToken(h)), JWT_SECRET, now).threw

(* C8: a request whose bearer token is malformed, wrongly signed or        *)
(* expired gets an anonymous context and no error, as a request without    *)
(* an Authorization header does *)
C8_ContextFailsClosed ==
  Served =>
    /\ BearerToken(resp.header) = None => resp.ctx = "anonymous"
    /\ BadToken(resp.header) => resp.ctx = "anonymous"

NewRow(rows) == rows[Len(rows)]

(* C9: board.create with a title no live board of the caller has succeeds  *)
(* and adds one live board of the caller with that title; stage.create     *)
(* with a title no live stage of the caller has, under a live board of the *)
(* caller, succeeds and adds one stage under that board *)
C9_CreateSucceedsOnFreshInput ==
  [][resp' # NoRequest =>
       /\ (resp'.op = "board.create" /\ resp'.ran
           /\ ~HasOwnLiveTitled(boards, Val(resp'.input).title, Val(resp'.caller)))
            => /\ resp'.code = "OK"
               /\ Len(boards') = Len(boards) + 1
               /\ SubSeq(boards', 1, Len(boards)) = boards
               /\ NewRow(boards').title = Val(resp'.input).title
               /\ NewRow(boards').createdBy = Val(resp'.caller)
               /\ ~NewRow(boards').deleted
       /\ (resp'.op = "stage.create" /\ resp'.ran
           /\ ~HasOwnLiveTitled(stages, Val(resp'.input).title, Val(resp'.caller))
           /\ HasOwnLive(boards, Val(resp'.input).boardExternalID, Val(resp'.caller)))
            => /\ resp'.code = "OK"
               /\ Len(stages') = Len(stages) + 1
               /\ SubSeq(stages', 1, Len(stages)) = stages
               /\ NewRow(stages').title = Val(resp'.input).title
               /\ NewRow(stages').board = Val(resp'.input).boardExternalID
               /\ NewRow(stages').createdBy = Val(resp'.caller)
               /\ ~NewRow(stages').deleted]_vars

NoTwoLiveWithTitle(rows) ==
  \A i, j \in 1..Len(rows) :
    (i # j /\ rows[i].createdBy = rows[j].createdBy
     /\ ~rows[i].deleted /\ ~rows[j].deleted)
      => rows[i].title # rows[j].title

(* C10: no owner has two live boards, or two live stages, with one title *)
C10_NoDuplicateTitles ==
  NoTwoLiveWithTitle(boards) /\ NoTwoLiveWithTitle(stages)

(* C11: task.create succeeds exactly when input.stageExternalID names a    *)
(* live stage of the caller, whatever the titles of the caller's stages;   *)
(* on success one task of the caller is added under that stage, and        *)
(* otherwise no task row is added *)
C11_TaskCreateChecksTargetStage ==
  [][(resp' # NoRequest /\ resp'.op = "task.create" /\ resp'.ran) =>
       LET input == Val(resp'.input)
           me == Val(resp'.caller)
       IN /\ resp'.code = "OK" <=> HasOwnLive(stages, input.stageExternalID, me)
          /\ resp'.code = "OK" =>
               /\ Len(tasks') = Len(tasks) + 1
               /\ SubSeq(tasks', 1, Len(tasks)) = tasks
               /\ NewRow(tasks').createdBy = me
               /\ NewRow(tasks').stage = input.stageExternalID
          /\ resp'.code # "OK" => tasks' = tasks]_vars

(* C12: every stored stage has the owner of its parent board *)
C12_StageOwnerIsBoardOwner ==
  \A i \in 1..Len(stages) :
    /\ Exists(boards, stages[i].board)
    /\ RowOf(boards, stages[i].board).createdBy = stages[i].createdBy

(* C13: every stored task has the owner of its parent stage, and no        *)
(* successful task.create or task.update attaches the caller's task to a   *)
(* stage of another user or to a soft-deleted stage *)
C13_TaskOwnerIsStageOwner ==
  /\ [](\A i \in 1..Len(tasks) :
          /\ Exists(stages, tasks[i].stage)
          /\ RowOf(stages, tasks[i].stage).createdBy = tasks[i].createdBy)
  /\ [][(resp' # NoRequest /\ resp'.code = "OK") =>
          /\ resp'.op = "task.create" =>
               HasOwnLive(stages, Val(resp'.input).stageExternalID, Val(resp'.caller))
          /\ (resp'.op = "task.update" /\ Val(resp'.input).stageExternalID # None) =>
               HasOwnLive(stages, Val(Val(resp'.input).stageExternalID),
                          Val(resp'.caller))]_vars

UpdateOk(op) == resp' # NoRequest /\ resp'.op = op /\ resp'.code = "OK"

(* C14: a successful update keeps every field its input leaves out or      *)
(* null, and the fields no update patches: the owner, the parent unless    *)
(* supplied, the deleted flag and the username *)
C14_PartialUpdateFrame ==
  [][/\ UpdateOk("board.update") =>
          LET input == Val(resp'.input)
              old == RowOf(boards, input.externalID)
              new == RowOf(boards', input.externalID)
          IN /\ input.title = None => new.title = old.title
             /\ input.description = None => new.description = old.description
             /\ new.createdBy = old.createdBy /\ new.deleted = old.deleted
     /\ UpdateOk("stage.update") =>
          LET input == Val(resp'.input)
              old == RowOf(stages, input.externalID)
              new == RowOf(stages', input.externalID)
          IN /\ new.createdBy = old.createdBy /\ new.deleted = old.deleted
             /\ new.board = old.board
     /\ UpdateOk("task.update") =>
          LET input == Val(resp'.input)
              old == RowOf(tasks, input.externalID)
              new == RowOf(tasks', input.externalID)
          IN /\ input.title = None => new.title = old.title
             /\ input.description = None => new.description = old.description
             /\ input.dueDate = None => new.dueDate = old.dueDate
             /\ input.priority = None => new.priority = old.priority
             /\ input.stageExternalID = None => new.stage = old.stage
             /\ new.createdBy = old.createdBy /\ new.deleted = old.deleted
     /\ UpdateOk("user.updateUser") =>
          LET input == Val(resp'.input)
              old == RowOf(users, Val(resp'.caller))
              new == RowOf(users', Val(resp'.caller))
          IN /\ input.name = None => new.name = old.name
             /\ input.email = None => new.email = old.email
             /\ input.password = None => new.password = old.password
             /\ new.username = old.username /\ new.deleted = old.deleted]_vars

(* a board.update that gave a description and no title, on a board that    *)
(* still has its title *)
C14_Witness ==
  /\ Served /\ resp.op = "board.update" /\ resp.code = "OK"
  /\ Val(resp.input).title = None /\ Val(resp.input).description = Some("d1")
  /\ RowOf(boards, Val(resp.input).externalID).title = "t1"
  /\ RowOf(boards, Val(resp.input).externalID).description = "d1"

(* the table after the deleted flag of the row with that id is set *)
Flipped(rows, after, id) ==
  /\ Len(after) = Len(rows)
  /\ \A i \in 1..Len(rows) :
       after[i] = IF rows[i].externalID = id THEN [rows[i] EXCEPT !.deleted = TRUE]
                  ELSE rows[i]

(* no row is removed and no deleted flag is reset *)
Kept(rows, after) ==
  /\ Len(after) >= Len(rows)
  /\ \A i \in 1..Len(rows) : rows[i].deleted => after[i].deleted

UniqueIDs(rows) ==
  \A i, j \in 1..Len(rows) : i # j => rows[i].externalID # rows[j].externalID

SameIDs(rows, after) ==
  \A i \in 1..Len(rows) : i <= Len(after) /\ after[i].externalID = rows[i].externalID

(* C17: no two rows of a table share an externalID, and no request changes *)
(* the externalID of a stored user, board, stage or task *)
C17_ExternalIDUniqueImmutable ==
  /\ [](UniqueIDs(users) /\ UniqueIDs(boards) /\ UniqueIDs(stages) /\ UniqueIDs(tasks))
  /\ [][/\ SameIDs(users, users') /\ SameIDs(boards, boards')
        /\ SameIDs(stages, stages') /\ SameIDs(tasks, tasks')]_vars

(* a task.update went through, with a registered third user and a user    *)
(* with a new password in the tables *)
C17_Witness ==
  /\ Served /\ resp.op = "task.update" /\ resp.code = "OK"
  /\ Len(users) = 3 /\ BcryptCompare("password2", users[1].password)
  /\ Len(tasks) = 1 /\ tasks[1].priority = 1

(* C15: a successful task.update stores every field its input gives a    *)
(* non-null value for exactly as given, priority 0 and the empty string    *)
(* included *)
C15_TaskUpdateStoresSuppliedValues ==
  [][UpdateOk("task.update") =>
       LET input == Val(resp'.input)
           new == RowOf(tasks', input.externalID)
       IN /\ input.title # None => new.title = Val(input.title)
          /\ input.description # None => new.description = input.description
          /\ input.dueDate # None => new.dueDate = Val(input.dueDate)
          /\ input.priority # None => new.priority = Val(input.priority)
          /\ input.stageExternalID # None => new.stage = Val(input.stageExternalID)]_vars

(* C18: a lookup that finds no row answers NOT_FOUND: board.get of an id  *)
(* no live board of the caller has answers NOT_FOUND "Board not found",    *)
(* and user.updateUser of a caller whose row is soft-deleted answers       *)
(* NOT_FOUND "User not found" *)
C18_MissingRowIsNotFound ==
  (Served /\ resp.ran) =>
    /\ (resp.op = "board.get"
        /\ ~HasOwnLive(boards, Val(resp.input).externalID, Val(resp.caller)))
         => (resp.code = "NOT_FOUND" /\ resp.message = "Board not found")
    /\ (resp.op = "user.updateUser" /\ RowOf(users, Val(resp.caller)).deleted)
         => (resp.code = "NOT_FOUND" /\ resp.message = "User not found")

(* C19: once a user's row is soft-deleted, no user.me call returns the     *)
(* user's record and no user.updateUser call changes the row *)
C19_DeletedUserIsExcluded ==
  [][(resp' # NoRequest /\ resp'.caller # None
      /\ RowOf(users, Val(resp'.caller)).deleted) =>
       /\ resp'.op = "user.me" => resp'.code # "OK"
       /\ resp'.op = "user.updateUser" => (resp'.code # "OK" /\ users' = users)]_vars

(* C20: every procedure of the auth, user, board, stage and task routers   *)
(* that answers a request is a procedure of a router appRouter mounts *)
C20_EveryRouterIsMounted ==
  \A op \in Ops : (Served /\ resp.op = op) => RouterOf(op) \in appRouter

(* C23: the task a successful task.update returns is the task as stored   *)
(* after the update *)
C23_TaskUpdateReturnsStoredTask ==
  (Served /\ resp.op = "task.update" /\ resp.code = "OK") =>
    LET task == resp.payload.task
        row == RowOf(tasks, task.externalID)
    IN /\ task.title = row.title
       /\ task.description = row.description
       /\ task.dueDate = row.dueDate
       /\ task.priority = row.priority
       /\ task.stage.externalID = row.stage

UpdateOps == {"board.update", "stage.update", "task.update", "user.updateUser"}

(* the request resp holds, handled once more on the tables as they are;    *)
(* salt is the salt bcrypt draws this time *)
Redo(salt) ==
  LET ctx == BuildContext(resp.header)
      input == Val(resp.input)
  IN IF resp.op = "board.update" THEN board_update_handler(ctx, input)
     ELSE IF resp.op = "stage.update" THEN stage_update_handler(ctx, input)
     ELSE IF resp.op = "task.update" THEN task_update_handler(ctx, input)
     ELSE user_updateUser_handler(ctx, input, salt)

UpdateServed == resp # NoRequest /\ resp.op \in UpdateOps /\ resp.code = "OK"

(* the users as they are in us but for the stored hashes, which accept the *)
(* same passwords *)
SameUsersButSalt(us, after) ==
  /\ Len(after) = Len(us)
  /\ \A i \in 1..Len(us) :
       /\ [after[i] EXCEPT !.password = us[i].password] = us[i]
       /\ \A pw \in Passwords :
            BcryptCompare(pw, after[i].password) = BcryptCompare(pw, us[i].password)

(* C21: the input of a successful update of a board, stage, task or user,  *)
(* applied again right after, succeeds and leaves every table as the first *)
(* application left it *)
C21_UpdateIsIdempotent ==
  [][UpdateServed' =>
       \A salt \in Salts : \E again \in {Redo(salt)'} :
         /\ again.r.code = "OK"
         /\ again.users = users' /\ again.boards = boards'
         /\ again.stages = stages' /\ again.tasks = tasks']_vars

(* C21 as amended: the same, except that a user update that gives a        *)
(* password stores a freshly salted hash, which accepts the same password *)
C21_UpdateIsIdempotentButSalt ==
  [][UpdateServed' =>
       \A salt \in Salts : \E again \in {Redo(salt)'} :
         /\ again.r.code = "OK"
         /\ again.boards = boards' /\ again.stages = stages' /\ again.tasks = tasks'
         /\ IF resp'.op = "user.updateUser" /\ Val(resp'.input).password # None
              THEN SameUsersButSalt(users', again.users)
              ELSE again.users = users']_vars

(* a user update that gave a password went through, beside a task whose    *)
(* priority an update has set *)
C21_Witness ==
  /\ Served /\ resp.op = "user.updateUser" /\ resp.code = "OK"
  /\ Val(resp.input).password = Some("password2")
  /\ Len(tasks) = 1 /\ tasks[1].priority = 1

(* auth.login(u, p) returns a token for the user named u, from either      *)
(* definition of the procedure *)
LoginAccepts(u, p) ==
  \E out \in {loginBody([username |-> u, password |-> p])} :
    /\ out.r.code = "OK"
    /\ Caught(out, "Something went wrong").r.code = "OK"
    /\ out.r.payload.token.payload.externalID = Val(UserByUsername(u)).externalID
    /\ ~JwtVerify(out.r.payload.token, JWT_SECRET, now).threw

RegisterOk == Served /\ resp.op = "auth.register" /\ resp.code = "OK"
UpdateUserOk == Served /\ resp.op = "user.updateUser" /\ resp.code = "OK"

(* C22: right after a successful auth.register(u, p), login accepts p and  *)
(* no other password for u; right after a successful user.updateUser by u  *)
(* with password q, login accepts q and no other password for u; after one *)
(* without a password, login accepts for u what it accepted before *)
C22_CredentialRoundTrip ==
  [][/\ RegisterOk' =>
          \E input \in {Val(resp'.input)} :
            \A p \in Passwords :
              LoginAccepts(input.username, p)' <=> (p = input.password)
     /\ UpdateUserOk' =>
          \E u \in {RowOf(users, Val(resp'.caller)).username}, input \in {Val(resp'.input)} :
            \A p \in Passwords :
              IF input.password # None
                THEN LoginAccepts(u, p)' <=> (p = Val(input.password))
                ELSE LoginAccepts(u, p)' <=> LoginAccepts(u, p)]_vars

(* a registered user has changed the password *)
C22_Witness ==
  /\ UpdateUserOk
  /\ Val(resp.input).password = Some("password2")
  /\ \E i \in 1..Len(users) :
       /\ users[i].externalID = Val(resp.caller)
       /\ BcryptCompare("password2", users[i].password)
       /\ ~BcryptCompare("password1", users[i].password)

(* the context of a request of user row u *)
ContextOf(u) == [AnonymousContext EXCEPT !.user = Some(u)]

(* what stage.list and stage.get of every stage return to user row u *)
StageReads(u) ==
  <<stage_list_handler(ContextOf(u), DefaultPage).r,
    [i \in 1..Len(stages) |->
       stage_get_handler(ContextOf(u), [externalID |-> stages[i].externalID]).r]>>

(* what task.list and task.get of every task return to user row u *)
TaskReads(u) ==
  <<task_list_handler(ContextOf(u), DefaultPage).r,
    [i \in 1..Len(tasks) |->
       task_get_handler(ContextOf(u), [externalID |-> tasks[i].externalID]).r]>>

SameFlags(rows, after) ==
  Len(after) = Len(rows) /\ \A i \in 1..Len(rows) : after[i].deleted = rows[i].deleted

(* C26: a successful board.delete leaves the deleted flag of every stage   *)
(* and task as it was, and stage.list, stage.get, task.list and task.get   *)
(* return to every user what they returned before; a successful            *)
(* stage.delete does so for every task and for task.list and task.get; a   *)
(* successful user.deleteUser leaves the boards, stages and tasks unchanged *)
C26_DeleteDoesNotCascade ==
  [][/\ UpdateOk("board.delete") =>
          /\ SameFlags(stages, stages') /\ SameFlags(tasks, tasks')
          /\ \A i \in 1..Len(users) :
               /\ StageReads(users[i])' = StageReads(users[i])
               /\ TaskReads(users[i])' = TaskReads(users[i])
     /\ UpdateOk("stage.delete") =>
          /\ SameFlags(tasks, tasks')
          /\ \A i \in 1..Len(users) : TaskReads(users[i])' = TaskReads(users[i])
     /\ UpdateOk("user.deleteUser") =>
          boards' = boards /\ stages' = stages /\ tasks' = tasks]_vars

(* a board was deleted over a live stage with a live task, both still      *)
(* returned to their owner *)
C26_Witness ==
  /\ Served /\ resp.op = "board.delete" /\ resp.code = "OK"
  /\ Len(stages) = 1 /\ Len(tasks) = 1
  /\ stages[1].board = Val(resp.input).externalID /\ ~stages[1].deleted
  /\ tasks[1].stage = stages[1].externalID /\ ~tasks[1].deleted
  /\ RowOf(boards, stages[1].board).deleted
  /\ StageReads(RowOf(users, Val(resp.caller)))[2][1].code = "OK"
  /\ TaskReads(RowOf(users, Val(resp.caller)))[2][1].code = "OK"

(* C27: a user.updateUser or user.deleteUser request, whatever its         *)
(* input.externalID, adds and removes no user row and changes no user row  *)
(* but the caller's own *)
C27_UserWritesOwnRowOnly ==
  [][(Served' /\ resp'.op \in {"user.updateUser", "user.deleteUser"}) =>
       /\ Len(users') = Len(users)
       /\ \A i \in 1..Len(users) :
            users'[i] # users[i] =>
              /\ resp'.caller # None
              /\ users[i].externalID = Val(resp'.caller)
              /\ users'[i].externalID = Val(resp'.caller)]_vars

(* a user sent the externalID of another stored user and changed their own *)
(* password *)
C27_Witness ==
  /\ UpdateUserOk
  /\ Val(resp.input).externalID # Val(resp.caller)
  /\ Exists(users, Val(resp.input).externalID)
  /\ Val(resp.input).password = Some("password2")
  /\ BcryptCompare("password2", RowOf(users, Val(resp.caller)).password)
  /\ BcryptCompare("password1", RowOf(users, Val(resp.input).externalID).password)

(* the user row is marked deleted *)
DeletedUser(id) == \E i \in 1..Len(users) : users[i].externalID = id /\ users[i].deleted

(* C28: auth.login issues no token for a user whose row is marked deleted  *)
LoginRefusesDeletedUser ==
  (Served' /\ resp'.op = "auth.login" /\ resp'.code = "OK") =>
     ~DeletedUser(resp'.payload.token.payload.externalID)

(* C28: no request is served with the context of a user whose row was      *)
(* marked deleted when the request came *)
ContextRefusesDeletedUser ==
  (Served' /\ resp'.ctx = "user") => ~DeletedUser(Val(resp'.caller))

(* C28: once user.deleteUser has succeeded for a user, login issues no     *)
(* token for that user and no token of that user resolves to an            *)
(* authenticated context *)
C28_DeletedUserCannotAct ==
  [][LoginRefusesDeletedUser /\ ContextRefusesDeletedUser]_vars

(* C24: whatever the interleaving of the requests, a row of Board, Stage   *)
(* or Task that has deleted = true is never changed again *)
C24_NoWriteAfterDelete ==
  [][/\ \A i \in 1..Len(boards) : boards[i].deleted => boards'[i] = boards[i]
     /\ \A i \in 1..Len(stages) : stages[i].deleted => stages'[i] = stages[i]
     /\ \A i \in 1..Len(tasks) : tasks[i].deleted => tasks'[i] = tasks[i]]_vars

(* C25: whatever the interleaving of the registrations, no two user rows   *)
(* share a username, and a registration that passed its existence check    *)
(* and created no row ends with BAD_REQUEST *)
C25_ConcurrentRegisterIsBadRequest ==
  /\ \A i, j \in 1..Len(users) : users[i].username = users[j].username => i = j
  /\ \A s \in DOMAIN inflight :
       (/\ inflight[s].op = "auth.register" /\ inflight[s].pc = "done"
        /\ inflight[s].passed /\ inflight[s].code # "OK")
         => inflight[s].code = "BAD_REQUEST"

====
